---- MODULE Spec2Model ----
(***************************************************************************)
(* A model of parser.py, the multi-source metrics parser.                  *)
(*                                                                         *)
(*  - collect() and the five parse_* strategies are a sequential state     *)
(*    machine (Spec): one action per awaited page operation.  The outcome  *)
(*    of page.goto, the content of the fetched page and the outcome of     *)
(*    page.wait_for_selector are the inputs.                               *)
(*  - clean_spaces, find_near_label and the price chain of parse_hex are   *)
(*    operators over sequences of characters, built on a backtracking      *)
(*    matcher for the regular expressions the source uses (SpecClean,      *)
(*    SpecFind, SpecValidators, SpecHex).                                  *)
(***************************************************************************)
EXTENDS Integers, Sequences, FiniteSets, TLC

VARIABLES
    pc,            \* position of collect()
    cur,           \* 1-based index of the source being handled
    driver,        \* async_playwright(): "off", "running", "stopped"
    browser,       \* "none", "open", "closed"
    context,       \* "none", "open", "closed"
    openPages,     \* number of pages opened and not yet closed
    page,          \* content of the page of the current source (set of features)
    navOutcome,    \* what page.goto did for the current source
    nav,           \* <<ok, err>> returned by goto_soft, <<>> before
    ops,           \* page operations performed by the current parse_* call
    fault,         \* "none", "nav_timeout" or "wait_timeout" for the current source
    ret,           \* <<record>> returned by the current parse_* call, <<>> before
    node_metrics,  \* list of NodeMetrics records
    discord,       \* <<DiscordMetrics>> once assigned
    x_data,        \* <<XMetrics>> once assigned
    github,        \* <<GitHubMetrics>> once assigned
    hex_data,      \* <<HexMetrics>> once assigned
    exc,           \* exception propagating out of collect(), None if none
    inp,           \* input of the pure function under check
    out,           \* results of the pure function under check
    phase          \* "idle", "in", "out", "again"

collectVars == <<pc, cur, driver, browser, context, openPages, page, navOutcome,
                 nav, ops, fault, ret, node_metrics, discord, x_data, github,
                 hex_data, exc>>
pureVars == <<inp, out, phase>>
vars == <<pc, cur, driver, browser, context, openPages, page, navOutcome,
          nav, ops, fault, ret, node_metrics, discord, x_data, github,
          hex_data, exc, inp, out, phase>>

\* Python's None, for Optional[str] fields and results.
None == "<None>"

Max(a, b) == IF a >= b THEN a ELSE b
Min(a, b) == IF a <= b THEN a ELSE b

-----------------------------------------------------------------------------
\* Text: a str is a sequence of characters, a character is a one-character
\* string, or "uXXXX" for the code point U+XXXX outside ASCII.

SP == " "
TAB == "\t"
NL == "\n"
NBSP == "u00A0"

\* Optional[str] results of the text functions: <<>> is None, <<s>> is s.
Absent == <<>>
Some(v) == <<v>>

\* What \s matches in a str pattern and what str.strip() removes.
IsSpace(c) == c \in {SP, TAB, NL, NBSP}
NotSpace(c) == ~IsSpace(c)

Digit == {"0", "1", "2", "3", "4", "5", "6", "7", "8", "9"}

UpperCase == <<"A", "B", "C", "D", "E", "F", "G", "H", "I", "J", "K", "L", "M",
               "N", "O", "P", "Q", "R", "S", "T", "U", "V", "W", "X", "Y", "Z",
               "u0410", "u0412", "u0414", "u0415", "u0416", "u0418", "u041A",
               "u041B", "u041D", "u041E", "u041F", "u0420", "u0422", "u0423",
               "u0426">>
LowerCase == <<"a", "b", "c", "d", "e", "f", "g", "h", "i", "j", "k", "l", "m",
               "n", "o", "p", "q", "r", "s", "t", "u", "v", "w", "x", "y", "z",
               "u0430", "u0432", "u0434", "u0435", "u0436", "u0438", "u043A",
               "u043B", "u043D", "u043E", "u043F", "u0440", "u0442", "u0443",
               "u0446">>

\* Case folding of re.IGNORECASE.
FoldTable ==
    [c \in {UpperCase[k] : k \in 1..Len(UpperCase)} |->
        LowerCase[CHOOSE k \in 1..Len(UpperCase) : UpperCase[k] = c]]
Fold(c) == IF c \in DOMAIN FoldTable THEN FoldTable[c] ELSE c

\* value.replace("\xa0", " ")
ReplaceNbsp(s) == [i \in 1..Len(s) |-> IF s[i] = NBSP THEN SP ELSE s[i]]

\* A faulty variant of CollapseSpaces: r"\s" for r"\s+".
CollapseEachSpace(s) == [i \in 1..Len(s) |-> IF IsSpace(s[i]) THEN SP ELSE s[i]]

\* re.sub(r"\s+", " ", s): every maximal run of whitespace becomes one space.
CollapseSpaces(s) ==
    LET Keep(i) == NotSpace(s[i]) \/ i = 1 \/ NotSpace(s[i - 1])
        idx == SelectSeq([i \in 1..Len(s) |-> i], Keep)
    IN  [k \in 1..Len(idx) |-> IF IsSpace(s[idx[k]]) THEN SP ELSE s[idx[k]]]

\* str.strip()
Strip(s) ==
    LET nonsp == {i \in 1..Len(s) : NotSpace(s[i])}
    IN  IF nonsp = {} THEN <<>>
        ELSE SubSeq(s, CHOOSE i \in nonsp : \A j \in nonsp : i <= j,
                       CHOOSE i \in nonsp : \A j \in nonsp : i >= j)

clean_spaces(value) == Strip(CollapseSpaces(ReplaceNbsp(value)))

\* s[a:b] of Python, a and b 0-based, negative ones counted from the end.
PySlice(s, a, b) ==
    LET n == Len(s)
        lo == IF a < 0 THEN Max(0, a + n) ELSE Min(a, n)
        hi == IF b < 0 THEN Max(0, b + n) ELSE Min(b, n)
    IN  SubSeq(s, lo + 1, hi)

-----------------------------------------------------------------------------
\* Regular expressions, matched as re does with re.IGNORECASE: by backtracking,
\* greedy quantifiers longest first, alternatives left to right.
\*
\* A pattern is a sequence of items:
\*   [t |-> "set", set, min, max]   a character class repeated min..max times
\*   [t |-> "alt", alts]            an alternation of patterns
\*   [t |-> "rep", body, min, max]  a group repeated min..max times
\* A regex is [pre, cap]: the pattern pre followed by the pattern cap, cap
\* being the part whose text the caller reads (group(1), or the whole match
\* when pre is empty).

Unbounded == 1000000

\* The class of a "set" item is kept case-folded.
Set(S, lo, hi) == [t |-> "set", set |-> {Fold(x) : x \in S}, min |-> lo, max |-> hi]
One(c) == Set({c}, 1, 1)
Lit(str) == [i \in 1..Len(str) |-> One(str[i])]
Alt(as) == [t |-> "alt", alts |-> as]
Rep(b, lo, hi) == [t |-> "rep", body |-> b, min |-> lo, max |-> hi]

SpaceClass == {SP, TAB, NL, NBSP}
\* \w over the characters of the model.
WordClass == Digit \cup {UpperCase[k] : k \in 1..Len(UpperCase)}
                   \cup {LowerCase[k] : k \in 1..Len(LowerCase)} \cup {"_"}

InClass(c, S) == Fold(c) \in S

\* Flatten a sequence of sequences.
RECURSIVE Flatten(_)
Flatten(ss) == IF ss = <<>> THEN <<>> ELSE Head(ss) \o Flatten(Tail(ss))

\* Number of consecutive characters of s from position i that are in S, at most m.
RECURSIVE RunLen(_, _, _, _)
RunLen(S, s, i, m) ==
    IF m = 0 \/ i > Len(s) \/ ~InClass(s[i], S) THEN 0
    ELSE 1 + RunLen(S, s, i + 1, m - 1)

\* The positions at which a match of items[k..] starting at position i of s can
\* end, in the order the backtracking matcher tries them.
RECURSIVE SeqEnds(_, _, _, _)
RECURSIVE ItemEnds(_, _, _)
RECURSIVE RepEnds(_, _, _, _)
SeqEnds(items, k, s, i) ==
    IF k > Len(items) THEN <<i>>
    ELSE LET es == ItemEnds(items[k], s, i)
         IN  Flatten([j \in 1..Len(es) |-> SeqEnds(items, k + 1, s, es[j])])

ItemEnds(it, s, i) ==
    CASE it.t = "set" ->
            LET run == RunLen(it.set, s, i, it.max)
            IN  IF run < it.min THEN <<>>
                ELSE [j \in 1..(run - it.min + 1) |-> i + run - j + 1]
      [] it.t = "alt" ->
            Flatten([a \in 1..Len(it.alts) |-> SeqEnds(it.alts[a], 1, s, i)])
      [] it.t = "rep" -> RepEnds(it, s, i, 0)

RepEnds(it, s, i, n) ==
    (IF n < it.max
     THEN LET es == SelectSeq(SeqEnds(it.body, 1, s, i), LAMBDA e : e > i)
          IN  Flatten([j \in 1..Len(es) |-> RepEnds(it, s, es[j], n + 1)])
     ELSE <<>>)
    \o (IF n >= it.min THEN <<i>> ELSE <<>>)

NoMatch == [start |-> 0, gstart |-> 0, end |-> 0]

\* The match of regex p that starts at position i of s, NoMatch if none.
MatchAt(p, s, i) ==
    LET es == SeqEnds(p.pre, 1, s, i)
        fs == Flatten([j \in 1..Len(es) |->
                 LET gs == SeqEnds(p.cap, 1, s, es[j])
                 IN  [k \in 1..Len(gs) |-> <<es[j], gs[k]>>]])
    IN  IF fs = <<>> THEN NoMatch
        ELSE [start |-> i, gstart |-> fs[1][1], end |-> fs[1][2]]

\* re.search(p, s) from position pos on: the leftmost match.
Search(p, s, pos) ==
    LET hits == {i \in pos..(Len(s) + 1) : MatchAt(p, s, i) # NoMatch}
    IN  IF hits = {} THEN NoMatch
        ELSE MatchAt(p, s, CHOOSE i \in hits : \A j \in hits : i <= j)

\* re.finditer(p, s): the non-overlapping matches, left to right.
RECURSIVE FindIterFrom(_, _, _)
FindIterFrom(p, s, pos) ==
    LET m == Search(p, s, pos)
    IN  IF m = NoMatch THEN <<>>
        ELSE <<m>> \o FindIterFrom(p, s, IF m.end > m.start THEN m.end ELSE m.end + 1)

FindIter(p, s) == FindIterFrom(p, s, 1)

\* m.group(0) and m.group(1)
Group0(s, m) == SubSeq(s, m.start, m.end - 1)
Group1(s, m) == SubSeq(s, m.gstart, m.end - 1)

Whole(items) == [pre |-> <<>>, cap |-> items]

-----------------------------------------------------------------------------
\* find_near_label

DefaultWindow == 120

\* A faulty variant of ChunkStart: without the clamp.
ChunkStartNoClamp(mstart, window) == mstart - window

\* start = max(0, match.start() - window)
ChunkStart(mstart, window) == Max(0, mstart - window)

\* end = min(len(text), match.end() + window)
ChunkEnd(n, mend, window) == Min(n, mend + window)

\* A faulty variant of FirstValue: without "if value".
FirstValueUnchecked(chunk, ms, k) ==
    IF k > Len(ms) THEN Absent ELSE Some(clean_spaces(Group0(chunk, ms[k])))

\* The loop over re.finditer: the first match whose cleaned text is not empty.
RECURSIVE FirstValue(_, _, _)
FirstValue(chunk, ms, k) ==
    IF k > Len(ms) THEN Absent
    ELSE LET value == clean_spaces(Group0(chunk, ms[k]))
         IN  IF value # <<>> THEN Some(value) ELSE FirstValue(chunk, ms, k + 1)

find_near_label(text, label_regex, value_regex, window) ==
    LET match == Search(label_regex, text, 1)
    IN  IF match = NoMatch THEN Absent
        ELSE LET start == ChunkStart(match.start - 1, window)
                 end == ChunkEnd(Len(text), match.end - 1, window)
                 chunk == PySlice(text, start, end)
             IN  FirstValue(chunk, FindIter(value_regex, chunk), 1)

\* The patterns parse_node passes to find_near_label.
ValidatorsWord == <<"V", "a", "l", "i", "d", "a", "t", "o", "r", "s">>
ValidatorWordRu == <<"u0412", "u0430", "u043B", "u0438", "u0434", "u0430", "u0442",
                     "u043E", "u0440">>
ValidatorsLabel ==
    Whole(<<Alt(<<Lit(ValidatorsWord),
                  Lit(ValidatorWordRu) \o <<Set(WordClass, 0, Unbounded)>>>>)>>)
ValidatorsValue == Whole(<<Set(Digit, 1, 8)>>)
NextPocLabel ==
    Whole(Lit(<<"N", "e", "x", "t">>) \o <<Set(SpaceClass, 0, Unbounded)>>
          \o Lit(<<"P", "o", "C">>))
NextPocValue ==
    Whole(<<Set(Digit, 1, Unbounded), Set(SpaceClass, 0, Unbounded), One("h"),
            Set(SpaceClass, 0, Unbounded), Set(Digit, 1, Unbounded),
            Set(SpaceClass, 0, Unbounded), One("m"),
            Set(SpaceClass, 0, Unbounded), Set(Digit, 1, Unbounded),
            Set(SpaceClass, 0, Unbounded), One("s")>>)

-----------------------------------------------------------------------------
\* parse_hex: the price chain

Spaces == Set(SpaceClass, 0, Unbounded)
\* (\d+(?:[.,]\d+)*)
PriceNumber == <<Set(Digit, 1, Unbounded),
                 Rep(<<Set({".", ","}, 1, 1), Set(Digit, 1, Unbounded)>>, 0, Unbounded)>>
\* \s*[:]?\s*\$?\s*
PriceGap == <<Spaces, Set({":"}, 0, 1), Spaces, Set({"$"}, 0, 1), Spaces>>

WordPrice == <<"P", "r", "i", "c", "e">>
WordTsena == <<"u0426", "u0435", "u043D", "u0430">>
WordProdazhi == <<"u043F", "u0440", "u043E", "u0434", "u0430", "u0436", "u0438">>
WordPokupki == <<"u043F", "u043E", "u043A", "u0443", "u043F", "u043A", "u0438">>

SellPricePattern ==
    [pre |-> <<Alt(<<Lit(<<"S", "e", "l", "l">>) \o <<Spaces>> \o Lit(WordPrice),
                     Lit(WordTsena) \o <<Spaces>> \o Lit(WordProdazhi)>>)>> \o PriceGap,
     cap |-> PriceNumber]
BuyPricePattern ==
    [pre |-> <<Alt(<<Lit(<<"B", "u", "y">>) \o <<Spaces>> \o Lit(WordPrice),
                     Lit(WordTsena) \o <<Spaces>> \o Lit(WordPokupki)>>)>> \o PriceGap,
     cap |-> PriceNumber]
BarePricePattern == [pre |-> <<One("$"), Spaces>>, cap |-> PriceNumber]

\* A faulty variant of HexPatterns: the generic pattern first.
HexPatternsBareFirst == <<BarePricePattern, SellPricePattern, BuyPricePattern>>

HexPatterns == <<SellPricePattern, BuyPricePattern, BarePricePattern>>

\* m.group(1).replace(" ", "")
RemoveSpaces(s) == SelectSeq(s, LAMBDA c : c # SP)

\* for pattern in [...]: m = re.search(pattern, text); if m: price = ...; break
RECURSIVE FirstPrice(_, _, _)
FirstPrice(text, patterns, k) ==
    IF k > Len(patterns) THEN Absent
    ELSE LET m == Search(patterns[k], text, 1)
         IN  IF m # NoMatch THEN Some(RemoveSpaces(Group1(text, m)))
             ELSE FirstPrice(text, patterns, k + 1)

\* The price parse_hex reports for a page whose body text is inner_text.
HexPrice(inner_text) == FirstPrice(clean_spaces(inner_text), HexPatterns, 1)

-----------------------------------------------------------------------------
\* Configuration

NODE_URLS == <<"http://node1.gonka.ai:8000", "http://node2.gonka.ai:8000">>

\* The order in which collect() handles the sources.
Singletons == <<"discord", "x", "github", "hex">>
NumSources == Len(NODE_URLS) + Len(Singletons)
Kind(i) == IF i <= Len(NODE_URLS) THEN "node" ELSE Singletons[i - Len(NODE_URLS)]

-----------------------------------------------------------------------------
\* Records

NodeMetrics(url, available, total, validators, next_poc, error) ==
    [url |-> url, available |-> available, total_compute_power |-> total,
     validators |-> validators, next_poc |-> next_poc, error |-> error]

DiscordMetrics(online, members, error) ==
    [online |-> online, members |-> members, error |-> error]

XMetrics(followers, error) == [followers |-> followers, error |-> error]

GitHubMetrics(stars, error) == [stars |-> stars, error |-> error]

HexMetrics(price, error) == [price |-> price, error |-> error]

-----------------------------------------------------------------------------
\* goto_soft

\* HTTP statuses page.goto may answer with, and messages of other exceptions.
Statuses == {200, 399, 400}
ExcMessages == {"net::ERR_NAME_NOT_RESOLVED", ""}

\* What page.goto can do: return no response, return a response, time out,
\* raise another exception.
NavOutcomes ==
    {[kind |-> "none", status |-> 0, msg |-> ""]}
    \cup {[kind |-> "response", status |-> s, msg |-> ""] : s \in Statuses}
    \cup {[kind |-> "timeout", status |-> 0, msg |-> ""]}
    \cup {[kind |-> "exception", status |-> 0, msg |-> m] : m \in ExcMessages}

\* A faulty variant of goto_soft: status > 400 for status >= 400.
GotoSoftWrongBound(o) ==
    CASE o.kind = "timeout"   -> <<FALSE, "Timeout">>
      [] o.kind = "exception" -> <<FALSE, o.msg>>
      [] o.kind = "none"      -> <<FALSE, "No response">>
      [] o.status > 400       -> <<FALSE, "HTTP " \o ToString(o.status)>>
      [] OTHER                -> <<TRUE, None>>

goto_soft(o) ==
    CASE o.kind = "timeout"   -> <<FALSE, "Timeout">>
      [] o.kind = "exception" -> <<FALSE, o.msg>>
      [] o.kind = "none"      -> <<FALSE, "No response">>
      [] o.status >= 400      -> <<FALSE, "HTTP " \o ToString(o.status)>>
      [] OTHER                -> <<TRUE, None>>

-----------------------------------------------------------------------------
\* Page content, as the features the strategies look for.  "ready" is the text
\* the readiness wait of parse_node / parse_discord waits for.

Features(kind) ==
    CASE kind = "node"    -> {"ready", "card", "validators", "next_poc"}
      [] kind = "discord" -> {"ready", "online", "members"}
      [] kind = "x"       -> {"followers"}
      [] kind = "github"  -> {"selector", "text"}
      [] kind = "hex"     -> {"price"}

\* The value extracted for a feature of the page, None when the page lacks it.
Field(pg, f) == IF f \in pg THEN "value" ELSE None

\* The strategies wait_for_selector is part of.
Waits(kind) == kind \in {"node", "discord"}

\* A faulty variant of FailureRecord: the reason is dropped.
FailureNoError(kind, url, err) ==
    CASE kind = "node"    -> NodeMetrics(url, FALSE, None, None, None, None)
      [] kind = "discord" -> DiscordMetrics(None, None, None)
      [] kind = "x"       -> XMetrics(None, None)
      [] kind = "github"  -> GitHubMetrics(None, None)
      [] kind = "hex"     -> HexMetrics(None, None)

\* The record a strategy returns when goto_soft reports a failure.
FailureRecord(kind, url, err) ==
    CASE kind = "node"    -> NodeMetrics(url, FALSE, None, None, None, err)
      [] kind = "discord" -> DiscordMetrics(None, None, err)
      [] kind = "x"       -> XMetrics(None, err)
      [] kind = "github"  -> GitHubMetrics(None, err)
      [] kind = "hex"     -> HexMetrics(None, err)

\* The record a strategy returns after a successful navigation.
SuccessRecord(kind, url, pg) ==
    CASE kind = "node"    -> NodeMetrics(url, TRUE, Field(pg, "card"),
                                         Field(pg, "validators"),
                                         Field(pg, "next_poc"), None)
      [] kind = "discord" -> DiscordMetrics(Field(pg, "online"),
                                            Field(pg, "members"), None)
      [] kind = "x"       -> XMetrics(Field(pg, "followers"), None)
      [] kind = "github"  -> GitHubMetrics(
                                 IF "selector" \in pg THEN "value"
                                 ELSE Field(pg, "text"), None)
      [] kind = "hex"     -> HexMetrics(Field(pg, "price"), None)

\* The page operations of a strategy after goto_soft and the readiness wait.
ExtractOps(kind, pg) ==
    CASE kind = "node"    -> <<"wait_for_timeout", "evaluate", "inner_text">>
      [] kind = "discord" -> <<"wait_for_timeout", "content", "inner_text">>
      [] kind = "x"       -> <<"wait_for_timeout", "content", "inner_text">>
      [] kind = "github"  -> <<"wait_for_timeout", "locator">>
                             \o (IF "selector" \in pg THEN <<>> ELSE <<"inner_text">>)
      [] kind = "hex"     -> <<"wait_for_timeout", "dismiss_hex_popups",
                               "wait_for_timeout", "inner_text">>

Url(i) == IF i <= Len(NODE_URLS) THEN NODE_URLS[i] ELSE Kind(i)

-----------------------------------------------------------------------------
\* collect()

PureIdle == inp = <<>> /\ out = <<>> /\ phase = "idle"

Init ==
    /\ pc = "start"
    /\ cur = 0
    /\ driver = "off"
    /\ browser = "none"
    /\ context = "none"
    /\ openPages = 0
    /\ page = {}
    /\ navOutcome = <<>>
    /\ nav = <<>>
    /\ ops = <<>>
    /\ fault = "none"
    /\ ret = <<>>
    /\ node_metrics = <<>>
    /\ discord = <<>>
    /\ x_data = <<>>
    /\ github = <<>>
    /\ hex_data = <<>>
    /\ exc = None
    /\ PureIdle

\* async with async_playwright() as p: browser = await p.chromium.launch(...)
Launch ==
    /\ pc = "start"
    /\ driver' = "running"
    /\ browser' = "open"
    /\ pc' = "launched"
    /\ UNCHANGED <<cur, context, openPages, page, navOutcome, nav, ops, fault, ret,
                   node_metrics, discord, x_data, github, hex_data, exc, pureVars>>

\* context = await browser.new_context(...); node_metrics = []
NewContext ==
    /\ pc = "launched"
    /\ context' = "open"
    /\ cur' = 1
    /\ pc' = "loop"
    /\ UNCHANGED <<driver, browser, openPages, page, navOutcome, nav, ops, fault, ret,
                   node_metrics, discord, x_data, github, hex_data, exc, pureVars>>

\* page = await context.new_page()
NewPage ==
    /\ pc = "loop"
    /\ page' = {}
    /\ openPages' = openPages + 1
    /\ navOutcome' = <<>>
    /\ nav' = <<>>
    /\ ops' = <<>>
    /\ fault' = "none"
    /\ ret' = <<>>
    /\ pc' = "goto"
    /\ UNCHANGED <<cur, driver, browser, context, node_metrics, discord, x_data,
                   github, hex_data, exc, pureVars>>

\* ok, err = await goto_soft(page, url); a page that loaded has some content.
GotoSoft ==
    /\ pc = "goto"
    /\ \E o \in NavOutcomes :
         /\ navOutcome' = <<o>>
         /\ nav' = goto_soft(o)
         /\ fault' = IF o.kind = "timeout" THEN "nav_timeout" ELSE "none"
         /\ IF goto_soft(o)[1]
            THEN \E pg \in SUBSET Features(Kind(cur)) : page' = pg
            ELSE page' = {}
    /\ ops' = Append(ops, "goto")
    /\ pc' = "navigated"
    /\ UNCHANGED <<cur, driver, browser, context, openPages, ret, node_metrics,
                   discord, x_data, github, hex_data, exc, pureVars>>

\* if not ok: return <Record>(error=err)
ReturnFailure ==
    /\ pc = "navigated"
    /\ ~nav[1]
    /\ ret' = <<FailureRecord(Kind(cur), Url(cur), nav[2])>>
    /\ pc' = "parsed"
    /\ UNCHANGED <<cur, driver, browser, context, openPages, page, navOutcome, nav,
                   ops, fault, node_metrics, discord, x_data, github, hex_data, exc,
                   pureVars>>

\* await page.wait_for_selector(...) of parse_node / parse_discord: satisfied
\* when the text shows up in time, else PlaywrightTimeoutError, which nothing
\* in parse_* or collect() catches.
WaitForSelector ==
    /\ pc = "navigated"
    /\ nav[1]
    /\ Waits(Kind(cur))
    /\ ops' = Append(ops, "wait_for_selector")
    /\ IF "ready" \in page
       THEN /\ pc' = "ready"
            /\ UNCHANGED <<fault, exc>>
       ELSE /\ pc' = "unwinding"
            /\ fault' = "wait_timeout"
            /\ exc' = "TimeoutError"
    /\ UNCHANGED <<cur, driver, browser, context, openPages, page, navOutcome, nav,
                   ret, node_metrics, discord, x_data, github, hex_data, pureVars>>

\* The rest of a parse_* function: the queries, the matching and the record.
Extract ==
    /\ \/ pc = "ready"
       \/ pc = "navigated" /\ nav[1] /\ ~Waits(Kind(cur))
    /\ ops' = ops \o ExtractOps(Kind(cur), page)
    /\ ret' = <<SuccessRecord(Kind(cur), Url(cur), page)>>
    /\ pc' = "parsed"
    /\ UNCHANGED <<cur, driver, browser, context, openPages, page, navOutcome, nav,
                   fault, node_metrics, discord, x_data, github, hex_data, exc,
                   pureVars>>

\* node_metrics.append(...) or discord = ... etc., then await page.close()
StoreAndClosePage ==
    /\ pc = "parsed"
    /\ node_metrics' = IF Kind(cur) = "node" THEN node_metrics \o ret ELSE node_metrics
    /\ discord' = IF Kind(cur) = "discord" THEN ret ELSE discord
    /\ x_data' = IF Kind(cur) = "x" THEN ret ELSE x_data
    /\ github' = IF Kind(cur) = "github" THEN ret ELSE github
    /\ hex_data' = IF Kind(cur) = "hex" THEN ret ELSE hex_data
    /\ openPages' = openPages - 1
    /\ IF cur < NumSources
       THEN cur' = cur + 1 /\ pc' = "loop"
       ELSE cur' = cur /\ pc' = "closing"
    /\ UNCHANGED <<driver, browser, context, page, navOutcome, nav, ops, fault, ret,
                   exc, pureVars>>

\* await context.close()
CloseContext ==
    /\ pc = "closing"
    /\ context' = "closed"
    /\ pc' = "ctxclosed"
    /\ UNCHANGED <<cur, driver, browser, openPages, page, navOutcome, nav, ops, fault,
                   ret, node_metrics, discord, x_data, github, hex_data, exc, pureVars>>

\* await browser.close()
CloseBrowser ==
    /\ pc = "ctxclosed"
    /\ browser' = "closed"
    /\ pc' = "exiting"
    /\ UNCHANGED <<cur, driver, context, openPages, page, navOutcome, nav, ops, fault,
                   ret, node_metrics, discord, x_data, github, hex_data, exc, pureVars>>

\* Leaving the async with block normally, and return {...}.
Return ==
    /\ pc = "exiting"
    /\ driver' = "stopped"
    /\ pc' = "done"
    /\ UNCHANGED <<cur, browser, context, openPages, page, navOutcome, nav, ops, fault,
                   ret, node_metrics, discord, x_data, github, hex_data, exc, pureVars>>

\* An exception leaves parse_*, the loop and the async with block: the context
\* manager stops the driver, and collect() raises.  page.close(),
\* context.close() and browser.close() are skipped.
Unwind ==
    /\ pc = "unwinding"
    /\ driver' = "stopped"
    /\ pc' = "raised"
    /\ UNCHANGED <<cur, browser, context, openPages, page, navOutcome, nav, ops, fault,
                   ret, node_metrics, discord, x_data, github, hex_data, exc, pureVars>>

Next ==
    \/ Launch
    \/ NewContext
    \/ NewPage
    \/ GotoSoft
    \/ ReturnFailure
    \/ WaitForSelector
    \/ Extract
    \/ StoreAndClosePage
    \/ CloseContext
    \/ CloseBrowser
    \/ Return
    \/ Unwind

Spec == Init /\ [][Next]_vars

-----------------------------------------------------------------------------
\* Properties of collect() and the strategies

Terminated == pc \in {"done", "raised"}

\* parse_* of the current source has ended, by a return or by an exception.
ParseEnded == pc \in {"parsed", "unwinding", "raised"}

DataFields(kind) ==
    CASE kind = "node"    -> {"total_compute_power", "validators", "next_poc"}
      [] kind = "discord" -> {"online", "members"}
      [] kind = "x"       -> {"followers"}
      [] kind = "github"  -> {"stars"}
      [] kind = "hex"     -> {"price"}

AllAbsent(kind, r) == \A f \in DataFields(kind) : r[f] = None

\* C1: whatever the page operations of the sources do, collect() ends by
\* returning a snapshot with one node record per entry of NODE_URLS, in order,
\* and one record each for discord, x, github and hex; no fault leaves collect().
C1_SnapshotAlwaysComplete ==
    Terminated =>
        /\ pc = "done"
        /\ exc = None
        /\ Len(node_metrics) = Len(NODE_URLS)
        /\ \A i \in 1..Len(node_metrics) : node_metrics[i].url = NODE_URLS[i]
        /\ Len(discord) = 1
        /\ Len(x_data) = 1
        /\ Len(github) = 1
        /\ Len(hex_data) = 1

\* C2: once collect() has ended, by a return or by an exception, the context
\* and the browser have been closed and no page is left open.
C2_AlwaysClosed ==
    Terminated => /\ context = "closed"
                  /\ browser = "closed"
                  /\ openPages = 0

\* C3: a timeout during navigation or during the readiness wait ends the
\* parse_* call with a record whose error is "Timeout", not with an exception.
C3_TimeoutBecomesRecord ==
    (ParseEnded /\ fault # "none") =>
        /\ exc = None
        /\ Len(ret) = 1
        /\ ret[1].error = "Timeout"

\* C4: when navigation fails with reason e, the strategy returns a record with
\* error = e and every data field absent (a node record is unavailable and
\* keeps its url), raises nothing, and has touched the page with goto only.
C4_FailureRecord ==
    (pc = "parsed" /\ ~nav[1]) =>
        /\ exc = None
        /\ Len(ret) = 1
        /\ ret[1].error = nav[2]
        /\ nav[2] # None
        /\ AllAbsent(Kind(cur), ret[1])
        /\ Kind(cur) = "node" => (~ret[1].available /\ ret[1].url = NODE_URLS[cur])
        /\ ops = <<"goto">>

C4_Witness ==
    /\ pc = "parsed"
    /\ ~nav[1]
    /\ Kind(cur) = "hex"
    /\ nav[2] = "Timeout"
    /\ Len(node_metrics) = 2
    /\ node_metrics[2].error = "HTTP 400"

\* C5: when navigation succeeds and the page has none of the things the
\* strategy looks for, the strategy returns a success record with every data
\* field absent, and raises nothing.
C5_MissIsSuccess ==
    (ParseEnded /\ nav[1] /\ page = {}) =>
        /\ exc = None
        /\ pc = "parsed"
        /\ Len(ret) = 1
        /\ ret[1].error = None
        /\ AllAbsent(Kind(cur), ret[1])
        /\ Kind(cur) = "node" => ret[1].available

\* C10: goto_soft raises nothing and classifies every outcome of page.goto:
\* no response, a status >= 400, a timeout, another exception, or success;
\* the reason is present exactly when ok is false.
C10_GotoSoftClassifies ==
    pc = "navigated" =>
        LET o == navOutcome[1] IN
        /\ exc = None
        /\ o.kind = "none" => nav = <<FALSE, "No response">>
        /\ (o.kind = "response" /\ o.status >= 400) =>
               nav = <<FALSE, "HTTP " \o ToString(o.status)>>
        /\ o.kind = "timeout" => nav = <<FALSE, "Timeout">>
        /\ o.kind = "exception" => nav = <<FALSE, o.msg>>
        /\ (o.kind = "response" /\ o.status < 400) => nav = <<TRUE, None>>
        /\ (nav[2] # None) <=> ~nav[1]

C10_Witness ==
    /\ pc = "navigated"
    /\ navOutcome[1].kind = "response"
    /\ navOutcome[1].status = 400
    /\ nav = <<FALSE, "HTTP 400">>

-----------------------------------------------------------------------------
\* The text functions, applied to inputs drawn from bounded sets.

\* All strings over alphabet A of length at most n.
Strs(A, n) == UNION {[1..k -> A] : k \in 0..n}

CollectIdle ==
    /\ pc = "start"
    /\ cur = 0
    /\ driver = "off"
    /\ browser = "none"
    /\ context = "none"
    /\ openPages = 0
    /\ page = {}
    /\ navOutcome = <<>>
    /\ nav = <<>>
    /\ ops = <<>>
    /\ fault = "none"
    /\ ret = <<>>
    /\ node_metrics = <<>>
    /\ discord = <<>>
    /\ x_data = <<>>
    /\ github = <<>>
    /\ hex_data = <<>>
    /\ exc = None

\* ---- clean_spaces

MaxCleanLen == 5
CleanAlphabet == {SP, NBSP, TAB, NL, "a", "b"}

InitClean ==
    /\ CollectIdle
    /\ \E s \in Strs(CleanAlphabet, MaxCleanLen) : inp = [text |-> s]
    /\ out = <<>>
    /\ phase = "in"

CleanOnce ==
    /\ phase = "in"
    /\ out' = <<clean_spaces(inp.text)>>
    /\ phase' = "out"
    /\ UNCHANGED <<collectVars, inp>>

CleanAgain ==
    /\ phase = "out"
    /\ Len(out) = 1
    /\ out' = Append(out, clean_spaces(out[1]))
    /\ phase' = "again"
    /\ UNCHANGED <<collectVars, inp>>

NextClean == CleanOnce \/ CleanAgain

SpecClean == InitClean /\ [][NextClean]_vars

\* C8: clean_spaces is total and idempotent; its result has no non-breaking
\* space, tab or newline, no two consecutive spaces and no space at either end,
\* and keeps the non-whitespace characters of the input in their order.
C8_CleanSpaces ==
    /\ phase \in {"out", "again"} =>
         LET r == out[1] IN
         /\ \A i \in 1..Len(r) : r[i] \notin {NBSP, TAB, NL}
         /\ \A i \in 1..(Len(r) - 1) : ~(r[i] = SP /\ r[i + 1] = SP)
         /\ r # <<>> => (r[1] # SP /\ r[Len(r)] # SP)
         /\ SelectSeq(r, NotSpace) = SelectSeq(inp.text, NotSpace)
    /\ phase = "again" => out[2] = out[1]

C8_Witness ==
    /\ phase = "again"
    /\ inp.text = <<NBSP, "a", TAB, NL, "b">>
    /\ out = <<<<"a", SP, "b">>, <<"a", SP, "b">>>>

\* ---- find_near_label

MaxFindSegs == 3
MaxWindow == 3

FindSegments ==
    {ValidatorsWord, <<"n", "e", "x", "t", SP, "P", "O", "C">>, <<"1", "2">>, <<"7">>,
     <<SP>>, <<"x">>, <<"3", "h", SP, "4", "m", "5", "s">>}

\* A value pattern that can match whitespace alone: [\s\d]+
SpaceOrDigits == Whole(<<Set(SpaceClass \cup Digit, 1, Unbounded)>>)

LabelRegex(name) ==
    CASE name = "validators" -> ValidatorsLabel
      [] name = "next_poc"   -> NextPocLabel

ValueRegex(name) ==
    CASE name = "digits"          -> ValidatorsValue
      [] name = "duration"        -> NextPocValue
      [] name = "space_or_digits" -> SpaceOrDigits

InitFind ==
    /\ CollectIdle
    /\ \E segs \in Strs(FindSegments, MaxFindSegs),
          l \in {"validators", "next_poc"},
          v \in {"digits", "duration", "space_or_digits"},
          w \in 0..MaxWindow :
         inp = [text |-> Flatten(segs), label |-> l, value |-> v, window |-> w]
    /\ out = <<>>
    /\ phase = "in"

FindNearLabel ==
    /\ phase = "in"
    /\ out' = <<find_near_label(inp.text, LabelRegex(inp.label),
                                ValueRegex(inp.value), inp.window)>>
    /\ phase' = "out"
    /\ UNCHANGED <<collectVars, inp>>

NextFind == FindNearLabel

SpecFind == InitFind /\ [][NextFind]_vars

\* The part of text that find_near_label searches, given the label match lm.
Window(text, lm, w) ==
    SubSeq(text, Max(0, (lm.start - 1) - w) + 1, Min(Len(text), (lm.end - 1) + w))

\* The matches of the value pattern in sub whose normalized text is not empty.
Candidates(V, sub) ==
    SelectSeq(FindIter(V, sub), LAMBDA m : clean_spaces(Group0(sub, m)) # <<>>)

\* C6: find_near_label returns absent if the label has no match; otherwise it
\* returns the normalized form of the leftmost value match, within window
\* characters of the first label match, whose normalized form is not empty,
\* and absent if there is none (so also when no value match lies there at all).
C6_FindNearLabel ==
    phase = "out" =>
        LET text == inp.text
            V == ValueRegex(inp.value)
            lm == Search(LabelRegex(inp.label), text, 1)
        IN  IF lm = NoMatch THEN out[1] = Absent
            ELSE LET sub == Window(text, lm, inp.window)
                     cands == Candidates(V, sub)
                 IN  /\ cands = <<>> => out[1] = Absent
                     /\ cands # <<>> =>
                          out[1] = Some(clean_spaces(Group0(sub, cands[1])))
                     /\ (\A i \in 1..(Len(sub) + 1) : MatchAt(V, sub, i) = NoMatch)
                          => out[1] = Absent

\* The label is found, the first value match in the window is whitespace only
\* and is skipped, and a later one is returned.
C6_Witness ==
    /\ phase = "out"
    /\ inp.value = "space_or_digits"
    /\ inp.window = 2
    /\ inp.text = <<SP>> \o ValidatorsWord \o <<"1", "2">>
    /\ out = <<Some(<<"1", "2">>)>>

\* ---- find_near_label on "<prefix>Validators 12345<suffix>"

MaxPrefix == 2
MaxSuffix == 2
PrefixAlphabet == {"7", SP, "x"}
SuffixAlphabet == {"6", SP, "x"}
\* Numbers of filler characters between the head of the prefix and the label.
PadLens == {0, DefaultWindow - 2, DefaultWindow - 1, DefaultWindow}
Filler(n) == [i \in 1..n |-> "x"]
Validators12345 == ValidatorsWord \o <<SP, "1", "2", "3", "4", "5">>

InitValidators ==
    /\ CollectIdle
    /\ \E h \in Strs(PrefixAlphabet, MaxPrefix), n \in PadLens,
          t \in Strs(SuffixAlphabet, MaxSuffix) :
         inp = [prefix |-> h \o Filler(n), suffix |-> t]
    /\ out = <<>>
    /\ phase = "in"

\* validators = find_near_label(text, r"Validators|...", r"\d{1,8}")
FindValidators ==
    /\ phase = "in"
    /\ out' = <<find_near_label(inp.prefix \o Validators12345 \o inp.suffix,
                                ValidatorsLabel, ValidatorsValue, DefaultWindow)>>
    /\ phase' = "out"
    /\ UNCHANGED <<collectVars, inp>>

NextValidators == FindValidators

SpecValidators == InitValidators /\ [][NextValidators]_vars

\* C7, as stated: whatever the prefix and the suffix, the result is "12345".
C7_Always12345 ==
    phase = "out" => out[1] = Some(<<"1", "2", "3", "4", "5">>)

\* No digit in the last DefaultWindow characters of the prefix.
PrefixClear(prefix) ==
    \A i \in 1..Len(prefix) : (Len(prefix) - i < DefaultWindow) => prefix[i] \notin Digit

\* C7, amended: the result is "12345" when the last 120 characters of the
\* prefix hold no digit and the suffix does not begin with a digit.
C7_12345WhenAlone ==
    (/\ phase = "out"
     /\ PrefixClear(inp.prefix)
     /\ (inp.suffix = <<>> \/ inp.suffix[1] \notin Digit))
        => out[1] = Some(<<"1", "2", "3", "4", "5">>)

\* A digit 121 characters before the label is outside the window.
C7_Witness ==
    /\ phase = "out"
    /\ inp.prefix = <<"7">> \o Filler(DefaultWindow)
    /\ inp.suffix = <<SP, "6">>
    /\ out[1] = Some(<<"1", "2", "3", "4", "5">>)

\* ---- parse_hex: the price chain

MaxHexSegs == 3

HexSegments ==
    {<<"S", "e", "l", "l", SP, "P", "r", "i", "c", "e", ":", SP, "3", ".", "5", "0">>,
     <<"B", "u", "y", NBSP, "p", "r", "i", "c", "e", SP, "$", "7">>,
     <<"$", "9", ".", "9", "9">>,
     WordTsena \o <<SP>> \o WordProdazhi \o <<SP, "1", ",", "5">>,
     <<"S", "E", "L", "L", "P", "R", "I", "C", "E">>,
     <<"x">>}

\* The segments, each followed by a newline.
RECURSIVE JoinLines(_)
JoinLines(segs) ==
    IF segs = <<>> THEN <<>> ELSE Head(segs) \o <<NL>> \o JoinLines(Tail(segs))

InitHex ==
    /\ CollectIdle
    /\ \E segs \in Strs(HexSegments, MaxHexSegs) : inp = [text |-> JoinLines(segs)]
    /\ out = <<>>
    /\ phase = "in"

ParseHexPrice ==
    /\ phase = "in"
    /\ out' = <<HexPrice(inp.text)>>
    /\ phase' = "out"
    /\ UNCHANGED <<collectVars, inp>>

NextHex == ParseHexPrice

SpecHex == InitHex /\ [][NextHex]_vars

\* C9: the price comes from the sell-price pattern if it matches anywhere in
\* the text, else from the buy-price pattern if that matches, else from the
\* bare "$" number, wherever the matches are; it is absent only if none matches.
C9_PriceOrder ==
    phase = "out" =>
        LET text == clean_spaces(inp.text)
            sell == Search(SellPricePattern, text, 1)
            buy == Search(BuyPricePattern, text, 1)
            bare == Search(BarePricePattern, text, 1)
        IN  /\ sell # NoMatch => out[1] = Some(Group1(text, sell))
            /\ (sell = NoMatch /\ buy # NoMatch) => out[1] = Some(Group1(text, buy))
            /\ (sell = NoMatch /\ buy = NoMatch /\ bare # NoMatch)
                 => out[1] = Some(Group1(text, bare))
            /\ out[1] = Absent
                 <=> (sell = NoMatch /\ buy = NoMatch /\ bare = NoMatch)

\* A bare "$9.99" and a buy price come before the sell price in the text.
C9_Witness ==
    /\ phase = "out"
    /\ inp.text = JoinLines(<<<<"$", "9", ".", "9", "9">>,
                              <<"B", "u", "y", NBSP, "p", "r", "i", "c", "e", SP, "$", "7">>,
                              <<"S", "e", "l", "l", SP, "P", "r", "i", "c", "e", ":", SP,
                                "3", ".", "5", "0">>>>)
    /\ out[1] = Some(<<"3", ".", "5", "0">>)

====
